---- MODULE Spec2Model ----
(***************************************************************************)
(* pm2-log-server: the LogManager (process registry, bounded per-process   *)
(* log buffers, 'log' event emission) and the WebSocket LogServer that     *)
(* fans every emitted entry out to the subscribed connections.             *)
(*                                                                         *)
(* Strings that the code takes apart (log payloads, messages) are          *)
(* sequences of one-character strings; names, tokens and enum values are   *)
(* TLA+ strings.  A JavaScript Map is a function whose DOMAIN is the set   *)
(* of keys present.                                                        *)
(***************************************************************************)
EXTENDS Integers, Sequences, FiniteSets, TLC

\* ------------------------------------------------------------------ bounds
\* logBufferSize given to the LogManager constructor.
BufferSize == 2
\* Total number of LogEntry objects created in one behaviour of the
\* LogManager driven alone.
MaxEntries == 3
\* The same, when the WebSocket server is attached.
MaxLive == 2
\* Largest count handed to getRecentLogs.
MaxCount == 3
\* Total number of LogEntry objects created while the SSE server streams.
MaxStreamed == 1
\* Largest number of refreshProcesses timers pending at one time.
MaxTimers == 2

\* ------------------------------------------------------- program constants
\* getRecentLogs(target, 20) in handleSubscribe
ReplayCount == 20

\* ------------------------------------------------------------ input domains
Names == {"app", "api"}
\* A process name that no registerProcess call ever carries.
Ghost == "ghost"
PmIds == {0, 1}
Conns == {1, 2}
\* The requests of the SSE server (each holds one LogClient object).
SseConns == {1, 2}
\* Identities of the Set<LogClient> objects the SSE server allocates.
SetIds == 1..4
\* config.maxClients of the SSE server
MaxClients == 1
\* getRecentLogs(name, 50) in handleSSE
SseReplayCount == 50
LogTypes == {"out", "error"}
Filters == {"all", "out", "error"}
Undefined == "undefined"
\* `name` of package.json: the plugin's own PM2 process name.
PluginName == "pm2-log-server"
\* packet.event of a 'process:event' packet
StartEvents == {"start", "restart", "online", "exception"}
StopEvents == {"stop", "delete", "exit", "kill"}
Events == StartEvents \cup StopEvents \cup {"restart overlimit"}
NoToken == ""
Secret == "s3cret"
NL == "\n"
SP == " "

\* -------------------------------------------------------------- Map helpers
EmptyMap == [k \in {} |-> Undefined]
MapHas(m, k) == k \in DOMAIN m
MapGet(m, k) == IF k \in DOMAIN m THEN m[k] ELSE Undefined
MapSet(m, k, v) == [x \in (DOMAIN m) \cup {k} |-> IF x = k THEN v ELSE m[x]]
MapDelete(m, k) == [x \in (DOMAIN m) \ {k} |-> m[x]]

\* An optional argument or field is a sequence of length 0 (undefined) or 1.
None == << >>
Some(x) == <<x>>

Min(a, b) == IF a <= b THEN a ELSE b
Max(a, b) == IF a >= b THEN a ELSE b

\* The last n elements of s (all of s when n >= Len(s)).
LastN(s, n) == SubSeq(s, Max(1, Len(s) - n + 1), Len(s))

\* message.token of an auth message
Tokens == {Secret, "wrong"}
\* message.process of a subscribe or unsubscribe message
SubscribeTargets == Names \cup {"*", Undefined}
\* message.options of an options message
OptionsMessages(filters) == {<< >>} \cup {Some([filter |-> f]) : f \in filters}

\* message.options objects that carry at most one of the fields filter,
\* clean and json.
PartialOptions ==
  {[f \in {} |-> TRUE]}
    \cup {[filter |-> f] : f \in Filters}
    \cup {[clean |-> b] : b \in BOOLEAN}
    \cup {[json |-> b] : b \in BOOLEAN}

\* Raw payloads of a log packet (packet.data).
Payloads ==
  { <<"a">>,
    <<"a", NL, "b">>,
    <<SP, NL, "a", NL>>,
    <<NL>> }

\* Payloads with blank lines at either end and in the middle, with lines of
\* several characters and with padded lines.
LinePayloads ==
  { << >>,
    <<NL, NL>>,
    <<"a", "b", NL, "c">>,
    <<"a", NL, SP, NL, "b">>,
    <<SP, "a", SP, NL, "\t">>,
    <<"a", NL, "b", NL, "c">> }

\* The filter strings a client sends: regex source strings, with and without
\* the /pattern/flags form, and substring filters.
RegexStrings ==
  { << >>,
    <<"a">>,
    <<"/", "a", "/">>,
    <<"/", "a", "/", "g">>,
    <<"/", "a", "/", "y">>,
    <<"/", "A", "/", "g", "i">>,
    <<"/", "a", "/", "x">> }
TextFilters == {<< >>, <<"A">>, <<"b">>}
\* entry.message of the entries the filter is applied to
Messages == {<<"a", "b">>, <<"B", "a">>, <<"b">>, <<"a", "a">>}

VARIABLES
  watchedProcesses,   \* LogManager.watchedProcesses : Set<string>
  processIdToName,    \* LogManager.processIdToName  : Map<number, string>
  logBuffers,         \* LogManager.logBuffers       : Map<string, LogEntry[]>
  authToken,          \* config.authToken (NoToken when not configured)
  clients,            \* LogServer.clients : Map<WebSocket, ClientConnection>
  readyState,         \* ws.readyState of every socket
  outbox,             \* the log entries the last handler sent (sendLog) to
                      \* every socket, in order; control replies
                      \* (sendMessage) are not recorded
  created,            \* number of LogEntry objects created so far
  appended,           \* per name: every entry handed to addToBuffer since the
                      \* buffers were last cleared, in order
  last,               \* which LogManager method ran last
  wildcard,           \* connections that subscribed to "*" and have sent no
                      \* unsubscribe since
  cleared,            \* connections whose "*" subscription was ended by an
                      \* unsubscribe without a process and that have had no
                      \* subscribe accepted since
  timers,             \* number of setTimeout(() => this.refreshProcesses(), 500)
                      \* timers that have not fired yet
  sseClients,         \* SSE LogServer.clients : Map<string, Set<LogClient>>,
                      \* as name -> identity of the Set object
  sseSets,            \* the members of every Set<LogClient> object
  sseConn,            \* per SSE request: what its handler's closure holds
                      \* (kind "closed" when the request is not open)
  sseOut,             \* the entries the last handleLog call or SSE request
                      \* wrote to every response (res.write)
  filterOpts,         \* a ClientFilterOptions<true> object: log_type, text
                      \* and the RegExp object (with its lastIndex) or null
  evaluated,          \* the entry shouldIncludeLog was last called with
  included,           \* what that call returned
  received            \* per socket: the entries sent to it (sendLog) of the
                      \* processes it has been subscribed to since; None in
                      \* the specifications that keep no record of it

vars == <<watchedProcesses, processIdToName, logBuffers, authToken, clients,
          readyState, outbox, created, appended, last, wildcard, cleared,
          timers, sseClients, sseSets, sseConn, sseOut,
          filterOpts, evaluated, included, received>>

mgrVars == <<watchedProcesses, processIdToName, logBuffers, created, appended>>
srvVars == <<authToken, clients, readyState, wildcard, cleared>>
plgVars == <<timers>>
sseVars == <<sseClients, sseSets, sseConn, sseOut>>
fltVars == <<filterOpts, evaluated, included>>

NoOutput == [c \in Conns |-> << >>]
\* The elements of a sequence.
Range(seq) == {seq[k] : k \in 1..Len(seq)}
\* The record of what every socket has been sent, after a handler sent `out`
\* and left the subscription sets `subs`.
Record(rcv, out, subs) ==
  IF rcv = None THEN None
  ELSE [c \in Conns |-> {e \in rcv[c] \cup Range(out[c]) : e.process \in subs[c]}]
\* The subscription set of every socket in a clients map.
Subscribed(cl) ==
  [c \in Conns |-> IF MapHas(cl, c) THEN cl[c].subscriptions ELSE {}]
NoSse == [c \in SseConns |-> << >>]

\* ------------------------------------------------------------ string helpers
\* String.prototype.split('\n'): the pieces between newlines, empty pieces kept.
RECURSIVE SplitFrom(_, _, _)
SplitFrom(data, i, cur) ==
  IF i > Len(data) THEN <<cur>>
  ELSE IF data[i] = NL THEN <<cur>> \o SplitFrom(data, i + 1, << >>)
  ELSE SplitFrom(data, i + 1, Append(cur, data[i]))

SplitLines(data) == SplitFrom(data, 1, << >>)

IsWhitespace(ch) == ch \in {SP, NL, "\t"}

\* String.prototype.trim(): leading and trailing whitespace removed.
RECURSIVE TrimLeft(_)
TrimLeft(s) ==
  IF s = << >> THEN s
  ELSE IF IsWhitespace(Head(s)) THEN TrimLeft(Tail(s))
  ELSE s

RECURSIVE TrimRight(_)
TrimRight(s) ==
  IF s = << >> THEN s
  ELSE IF IsWhitespace(s[Len(s)]) THEN TrimRight(SubSeq(s, 1, Len(s) - 1))
  ELSE s

Trim(s) == TrimRight(TrimLeft(s))

\* Mutant: the blank lines are not filtered out.
NonBlankLinesUnfiltered(data) == SplitLines(data)

\* .filter((line) => line.trim()): an empty string is falsy.
NonBlankLines(data) == SelectSeq(SplitLines(data), LAMBDA line : Trim(line) # << >>)


\* ------------------------------------------------------------------ LogEntry
\* A LogEntry object.  id is the object's identity (the n-th entry created);
\* the timestamp string is not read by any operation below.
NewEntry(n, type, line, name) ==
  [id |-> n, type |-> type, message |-> line, process |-> name]


\* ------------------------------------------------------------------- filter
ShouldIncludeLog(entry, filter) ==
  IF filter = "all" THEN TRUE ELSE entry.type = filter

\* --------------------------------------------- filter with text and regex
\* String.prototype.toLowerCase, on the letters the inputs are made of.
LowerChar(ch) == IF ch = "A" THEN "a" ELSE IF ch = "B" THEN "b" ELSE ch
ToLowerCase(s) == [k \in 1..Len(s) |-> LowerChar(s[k])]

\* String.prototype.includes
Includes(s, t) ==
  \E p \in 0..Len(s) : p + Len(t) <= Len(s) /\ SubSeq(s, p + 1, p + Len(t)) = t

\* The flag characters of /^\/(.*)\/([gimsuvy]*)$/
FlagChars == {"g", "i", "m", "s", "u", "v", "y"}

\* new RegExp(pattern, flags): a RegExp object.  The patterns are literal
\* characters; lastIndex starts at 0.
NewRegExp(pattern, flags) ==
  [source |-> pattern, flags |-> {flags[k] : k \in 1..Len(flags)}, lastIndex |-> 0]

\* parseRegexString: null (None) for an empty or missing string; for
\* /pattern/flags the pattern between the first and the last slash with the
\* flags after it; otherwise the whole string as the pattern.
ParseRegexString(regexStr) ==
  IF regexStr = << >> THEN None
  ELSE LET closing == {k \in 2..Len(regexStr) :
                         /\ regexStr[1] = "/"
                         /\ regexStr[k] = "/"
                         /\ \A j \in (k + 1)..Len(regexStr) : regexStr[j] \in FlagChars}
       IN  IF closing # {}
           THEN LET k == CHOOSE x \in closing : \A y \in closing : y <= x
                IN  Some(NewRegExp(SubSeq(regexStr, 2, k - 1),
                                   SubSeq(regexStr, k + 1, Len(regexStr))))
           ELSE Some(NewRegExp(regexStr, << >>))

\* Whether the pattern matches the string at (0-based) position p.
MatchesAt(regex, str, p) ==
  LET n == Len(regex.source)
      piece == SubSeq(str, p + 1, p + n)
  IN  /\ p + n <= Len(str)
      /\ IF "i" \in regex.flags
         THEN ToLowerCase(piece) = ToLowerCase(regex.source)
         ELSE piece = regex.source

\* RegExp.prototype.test: [result, regex], the regex with its new lastIndex.
\* With the g or y flag the search starts at lastIndex, which a match moves
\* to the end of the match and a failure resets to 0.
RegExpTest(regex, str) ==
  LET stateful == "g" \in regex.flags \/ "y" \in regex.flags
      start == IF stateful THEN regex.lastIndex ELSE 0
      positions == IF "y" \in regex.flags THEN {start} ELSE start..Len(str)
      hits == {p \in positions : MatchesAt(regex, str, p)}
  IN  IF start > Len(str) \/ hits = {}
      THEN [result |-> FALSE,
            regex |-> IF stateful THEN [regex EXCEPT !.lastIndex = 0] ELSE regex]
      ELSE LET p == CHOOSE x \in hits : \A y \in hits : x <= y
           IN  [result |-> TRUE,
                regex |-> IF stateful
                          THEN [regex EXCEPT !.lastIndex = p + Len(regex.source)]
                          ELSE regex]

\* shouldIncludeLog(entry, filter) with the text and regex filters:
\* [result, filter], the filter object as the call leaves it.
ShouldIncludeLogFiltered(entry, filter) ==
  IF filter.log_type # "all" /\ filter.log_type # entry.type
  THEN [result |-> FALSE, filter |-> filter]
  ELSE IF /\ filter.text # << >>
          /\ ~Includes(ToLowerCase(entry.message), ToLowerCase(filter.text))
  THEN [result |-> FALSE, filter |-> filter]
  ELSE IF filter.regex = None
  THEN [result |-> TRUE, filter |-> filter]
  ELSE LET test == RegExpTest(filter.regex[1], entry.message)
       IN  [result |-> test.result,
            filter |-> [filter EXCEPT !.regex = Some(test.regex)]]

\* ------------------------------------------------------------ WebSocket send
\* sendLog: `sent` is what this handler has sent to socket c so far.
SendLog(sent, c, client, entry) ==
  IF ~ShouldIncludeLog(entry, client.options.filter) THEN sent
  ELSE IF readyState[c] = "OPEN" THEN Append(sent, entry)
  ELSE sent

\* Mutant: the listener is attached twice.
OnLogAttachedTwice(out, name, entry) ==
  LET once == [c \in Conns |->
                 IF /\ MapHas(clients, c)
                    /\ clients[c].authenticated
                    /\ name \in clients[c].subscriptions
                 THEN SendLog(out[c], c, clients[c], entry)
                 ELSE out[c]]
  IN  [c \in Conns |->
         IF /\ MapHas(clients, c)
            /\ clients[c].authenticated
            /\ name \in clients[c].subscriptions
         THEN SendLog(once[c], c, clients[c], entry)
         ELSE once[c]]

\* Mutant: the subscription set is not consulted.
OnLogBroadcast(out, name, entry) ==
  [c \in Conns |->
     IF MapHas(clients, c) /\ clients[c].authenticated
     THEN SendLog(out[c], c, clients[c], entry)
     ELSE out[c]]

\* Mutant: the walk over the clients stops at the first subscriber.
OnLogFirstOnly(out, name, entry) ==
  LET subscribers == {c \in Conns : /\ MapHas(clients, c)
                                    /\ clients[c].authenticated
                                    /\ name \in clients[c].subscriptions}
  IN  [c \in Conns |->
         IF c \in subscribers /\ \A d \in subscribers : c <= d
         THEN SendLog(out[c], c, clients[c], entry)
         ELSE out[c]]

\* The 'log' listener of the WebSocket server: one pass over the clients map.
OnLog(out, name, entry) ==
  [c \in Conns |->
     IF /\ MapHas(clients, c)
        /\ clients[c].authenticated
        /\ name \in clients[c].subscriptions
     THEN SendLog(out[c], c, clients[c], entry)
     ELSE out[c]]

\* -------------------------------------------------------------- SSE send
\* What the closure of a request that is not open holds; the LogClient
\* object keeps its filter.
SseClosed(filter) == [kind |-> "closed", names |-> {}, set |-> 0, filter |-> filter]

\* sendSSE: `sent` is what this handler has written to the response so far.
SendSSE(sent, client, entry) ==
  IF client.filter # "all" /\ client.filter # entry.type THEN sent
  ELSE Append(sent, entry)

\* The 'log' listener of the SSE server.
OnLogSSE(out, name, entry) ==
  IF MapHas(sseClients, name)
  THEN [c \in SseConns |->
          IF c \in sseSets[sseClients[name]]
          THEN SendSSE(out[c], sseConn[c], entry)
          ELSE out[c]]
  ELSE out

\* --------------------------------------------------------------- LogManager
\* Mutant: the buffer is never trimmed.
AddToBufferNoEvict(bufs, name, entry) ==
  LET buffer == IF MapHas(bufs, name) THEN bufs[name] ELSE << >>
  IN  MapSet(bufs, name, Append(buffer, entry))

\* Mutant: a full buffer drops the entry just pushed (pop) instead of the
\* oldest one (shift).
AddToBufferDropNewest(bufs, name, entry) ==
  LET buffer == IF MapHas(bufs, name) THEN bufs[name] ELSE << >>
      pushed == Append(buffer, entry)
      kept   == IF Len(pushed) > BufferSize
                THEN SubSeq(pushed, 1, Len(pushed) - 1) ELSE pushed
  IN  MapSet(bufs, name, kept)

AddToBuffer(bufs, name, entry) ==
  LET buffer == IF MapHas(bufs, name) THEN bufs[name] ELSE << >>
      pushed == Append(buffer, entry)
      kept   == IF Len(pushed) > BufferSize THEN Tail(pushed) ELSE pushed
  IN  MapSet(bufs, name, kept)

\* Mutant: a name without a buffer is served from another name's buffer.
GetRecentLogsAnyBuffer(bufs, name, count) ==
  LET buffer == IF MapHas(bufs, name) THEN bufs[name]
                ELSE IF DOMAIN bufs = {} THEN << >>
                ELSE bufs[CHOOSE n \in DOMAIN bufs : TRUE]
  IN  IF count # None /\ count[1] # 0
      THEN LastN(buffer, count[1])
      ELSE buffer

GetRecentLogs(bufs, name, count) ==
  LET buffer == IF MapHas(bufs, name) THEN bufs[name] ELSE << >>
  IN  IF count # None /\ count[1] # 0
      THEN IF count[1] > 0 THEN LastN(buffer, count[1])
           ELSE SubSeq(buffer, Min(Len(buffer), -count[1]) + 1, Len(buffer))
      ELSE buffer

GetWatchedProcesses == watchedProcesses

GetProcessByPmId(pm_id) == MapGet(processIdToName, pm_id)

\* Mutant: the entry is emitted first and pushed to the buffer afterwards.
EachLineEmitFirst(st, name, entry) ==
  [bufs  |-> AddToBuffer(st.bufs, name, entry),
   hist  |-> [st.hist EXCEPT ![name] = Append(@, entry)],
   out   |-> OnLog(st.out, name, entry),
   sse   |-> OnLogSSE(st.sse, name, entry),
   snaps |-> Append(st.snaps, [entry |-> entry, buffer |-> st.bufs[name]])]

\* The callback of lines.forEach for one entry: addToBuffer, then emit.
\* st = [bufs, hist, out, sse, snaps]; snaps records, for each emit, the
\* entry and the buffer the listeners find.
EachLine(st, name, entry) ==
  LET bufs == AddToBuffer(st.bufs, name, entry)
  IN  [bufs  |-> bufs,
       hist  |-> [st.hist EXCEPT ![name] = Append(@, entry)],
       out   |-> OnLog(st.out, name, entry),
       sse   |-> OnLogSSE(st.sse, name, entry),
       snaps |-> Append(st.snaps, [entry |-> entry, buffer |-> bufs[name]])]

\* lines.forEach: entry i is pushed to the buffer, then emitted, before
\* line i+1 is looked at.
RECURSIVE ForEachLine(_, _, _, _, _, _)
ForEachLine(lines, i, n, type, name, st) ==
  IF i > Len(lines) THEN st
  ELSE LET entry == NewEntry(n + i, type, lines[i], name)
       IN  ForEachLine(lines, i + 1, n, type, name,
                       EachLine(st, name, entry))

\* The record kept in `last`: the LogManager method that ran last ("server"
\* for a handler of the LogServer); for registerProcess its arguments, for
\* handleLog its pm_id, the name it resolved to and the number of 'log'
\* events it emitted; for a bus packet that reached no LogManager method
\* ("process:event", "log") the packet's event, process name and pm_id;
\* for handleLog also, per emitted entry, the buffer at the time of the emit.
Ran(op) ==
  [op |-> op, name |-> Undefined, pm_id |-> None, emitted |-> 0,
   event |-> Undefined, snaps |-> << >>]

RegisterProcess(name, pm_id) ==
  /\ watchedProcesses' = watchedProcesses \cup {name}
  /\ processIdToName' = MapSet(processIdToName, pm_id, name)
  /\ logBuffers' = IF MapHas(logBuffers, name) THEN logBuffers
                   ELSE MapSet(logBuffers, name, << >>)
  /\ outbox' = NoOutput
  /\ last' = [Ran("registerProcess") EXCEPT !.name = name, !.pm_id = Some(pm_id)]
  /\ UNCHANGED <<created, appended, srvVars, plgVars, fltVars, received, sseVars>>

\* Mutant: the buffer of an unregistered process is deleted with it.
UnregisterProcessDropBuffer(name, pm_id) ==
  /\ watchedProcesses' = watchedProcesses \ {name}
  /\ processIdToName' = IF pm_id # None
                        THEN MapDelete(processIdToName, pm_id[1])
                        ELSE processIdToName
  /\ logBuffers' = MapDelete(logBuffers, name)
  /\ outbox' = NoOutput
  /\ last' = Ran("unregisterProcess")
  /\ UNCHANGED <<created, appended, srvVars, plgVars, fltVars, received, sseVars>>

UnregisterProcess(name, pm_id) ==
  /\ watchedProcesses' = watchedProcesses \ {name}
  /\ processIdToName' = IF pm_id # None
                        THEN MapDelete(processIdToName, pm_id[1])
                        ELSE processIdToName
  /\ outbox' = NoOutput
  /\ last' = Ran("unregisterProcess")
  /\ UNCHANGED <<logBuffers, created, appended, srvVars, plgVars, fltVars, received, sseVars>>

\* Mutant: the watched set is not consulted.
IsDroppedUnresolvedOnly(name) == name = Undefined

\* if (!name || !this.watchedProcesses.has(name)) return
IsDropped(name) == name = Undefined \/ name \notin watchedProcesses

HandleLog(pm_id, type, data, limit) ==
  LET name  == MapGet(processIdToName, pm_id)
      lines == NonBlankLines(data)
  IN
  IF IsDropped(name)
  THEN /\ outbox' = NoOutput
       /\ last' = [Ran("handleLog") EXCEPT !.name = name, !.pm_id = Some(pm_id)]
       /\ sseOut' = NoSse
       /\ UNCHANGED <<mgrVars, srvVars, plgVars, fltVars, received, sseClients, sseSets, sseConn>>
  ELSE LET st == ForEachLine(lines, 1, created, type, name,
                   [bufs |-> logBuffers, hist |-> appended, out |-> NoOutput,
                    sse |-> NoSse, snaps |-> << >>])
       IN  /\ created + Len(lines) <= limit
           /\ sseOut' = st.sse
           /\ logBuffers' = st.bufs
           /\ appended' = st.hist
           /\ outbox' = st.out
           /\ created' = created + Len(lines)
           /\ last' = [Ran("handleLog") EXCEPT !.name = name,
                                               !.pm_id = Some(pm_id),
                                               !.emitted = Len(lines),
                                               !.snaps = st.snaps]
           /\ received' = Record(received, st.out, Subscribed(clients))
           /\ UNCHANGED <<watchedProcesses, processIdToName, srvVars, plgVars, fltVars,
                          sseClients, sseSets, sseConn>>

\* Mutant: the id map is not cleared.
CleanupKeepIds ==
  /\ watchedProcesses' = {}
  /\ logBuffers' = EmptyMap
  /\ appended' = [n \in Names |-> << >>]
  /\ outbox' = NoOutput
  /\ last' = Ran("cleanup")
  /\ UNCHANGED <<processIdToName, created, srvVars, plgVars, fltVars, received, sseVars>>

Cleanup ==
  /\ watchedProcesses' = {}
  /\ processIdToName' = EmptyMap
  /\ logBuffers' = EmptyMap
  /\ appended' = [n \in Names |-> << >>]
  /\ outbox' = NoOutput
  /\ last' = Ran("cleanup")
  /\ UNCHANGED <<created, srvVars, plgVars, fltVars, received, sseVars>>

\* ------------------------------------------------------ PM2LogServerPlugin
\* What pm2.list() answers with: the processes PM2 manages, in ascending
\* pm_id order.
PmProcs ==
  { [name |-> "app", pm_id |-> 0, status |-> "online"],
    [name |-> "app", pm_id |-> 1, status |-> "online"],
    [name |-> "api", pm_id |-> 1, status |-> "stopped"],
    [name |-> PluginName, pm_id |-> 2, status |-> "online"] }

PmLists ==
  {<< >>} \cup {<<p>> : p \in PmProcs}
          \cup {pq \in PmProcs \X PmProcs : pq[1].pm_id < pq[2].pm_id}

\* The processes the bus packets come from.
EventProcs == {<<"app", 0>>, <<"app", 1>>, <<PluginName, 2>>}

\* processes.forEach((proc, i) => ...) of refreshProcesses; i counts from 0.
\* st = [watched, ids, bufs, last].
RECURSIVE RegisterEach(_, _, _)
RegisterEach(processes, k, st) ==
  IF k > Len(processes) THEN st
  ELSE LET proc == processes[k]
           i == k - 1
           pm_id == IF proc.pm_id # 0 THEN proc.pm_id ELSE i
       IN  IF proc.name = PluginName \/ proc.status # "online"
           THEN RegisterEach(processes, k + 1, st)
           ELSE RegisterEach(processes, k + 1,
                  [watched |-> st.watched \cup {proc.name},
                   ids |-> MapSet(st.ids, pm_id, proc.name),
                   bufs |-> IF MapHas(st.bufs, proc.name) THEN st.bufs
                            ELSE MapSet(st.bufs, proc.name, << >>),
                   last |-> [Ran("registerProcess") EXCEPT
                               !.name = proc.name, !.pm_id = Some(pm_id)]])

\* A refresh timer fires: pm2.list() answers with `processes` and every
\* online process other than the plugin is registered.
RefreshProcesses(processes) ==
  /\ timers > 0
  /\ timers' = timers - 1
  /\ LET st == RegisterEach(processes, 1,
                  [watched |-> watchedProcesses, ids |-> processIdToName,
                   bufs |-> logBuffers, last |-> Ran("refreshProcesses")])
     IN  /\ watchedProcesses' = st.watched
         /\ processIdToName' = st.ids
         /\ logBuffers' = st.bufs
         /\ last' = st.last
  /\ outbox' = NoOutput
  /\ UNCHANGED <<created, appended, srvVars, sseVars, fltVars, received>>

\* bus.on('process:event')
ProcessEvent(event, name, pm_id) ==
  IF name # PluginName /\ event \in StopEvents
  THEN UnregisterProcess(name, Some(pm_id))
  ELSE /\ IF name # PluginName /\ event \in StartEvents
          THEN timers < MaxTimers /\ timers' = timers + 1
          ELSE UNCHANGED timers
       /\ outbox' = NoOutput
       /\ last' = [Ran("process:event") EXCEPT
                     !.event = event, !.name = name, !.pm_id = Some(pm_id)]
       /\ UNCHANGED <<mgrVars, srvVars, sseVars, fltVars, received>>

\* bus.on('log:out') and bus.on('log:err')
BusLog(name, pm_id, type, data, limit) ==
  IF name = PluginName
  THEN /\ outbox' = NoOutput
       /\ last' = [Ran("log") EXCEPT !.name = name, !.pm_id = Some(pm_id)]
       /\ UNCHANGED <<mgrVars, srvVars, plgVars, fltVars, received, sseVars>>
  ELSE HandleLog(pm_id, type, data, limit)

\* ---------------------------------------------------------- SSE LogServer
\* new Set(): an object that neither the clients map nor the closure of an
\* open request refers to.
NewSet(map) ==
  CHOOSE id \in SetIds :
    /\ \A name \in DOMAIN map : map[name] # id
    /\ \A d \in SseConns : sseConn[d].set # id

\* recentLogs.forEach((log) => this.sendSSE(clientEntry, log))
RECURSIVE SendEachSSE(_, _, _, _)
SendEachSSE(sent, client, logs, i) ==
  IF i > Len(logs) THEN sent
  ELSE SendEachSSE(SendSSE(sent, client, logs[i]), client, logs, i + 1)

\* GET /logs/:name and GET /logs/:name/:filter
HandleSSE(c, name, rawFilter) ==
  /\ sseConn[c].kind = "closed"
  /\ outbox' = NoOutput
  /\ last' = Ran("server")
  /\ UNCHANGED <<mgrVars, srvVars, plgVars, fltVars, received>>
  /\ LET processes == GetWatchedProcesses
         filter == IF rawFilter = Undefined THEN "all" ELSE rawFilter
         clientEntry == [filter |-> filter]
         setId == IF MapHas(sseClients, name) THEN sseClients[name]
                  ELSE NewSet(sseClients)
         processClients == IF MapHas(sseClients, name) THEN sseSets[setId] ELSE {}
     IN  IF name \notin processes
         THEN /\ sseOut' = NoSse
              /\ UNCHANGED <<sseClients, sseSets, sseConn>>
         ELSE IF Cardinality(processClients) >= MaxClients
         THEN /\ sseOut' = NoSse
              /\ UNCHANGED <<sseClients, sseSets, sseConn>>
         ELSE /\ sseOut' = [NoSse EXCEPT ![c] =
                   SendEachSSE(<< >>, clientEntry,
                     GetRecentLogs(logBuffers, name, Some(SseReplayCount)), 1)]
              /\ sseSets' = [sseSets EXCEPT ![setId] = processClients \cup {c}]
              /\ sseClients' = MapSet(sseClients, name, setId)
              /\ sseConn' = [sseConn EXCEPT ![c] =
                   [kind |-> "process", names |-> {name}, set |-> setId,
                    filter |-> filter]]

\* allProcesses.forEach of GET /logs: the request's LogClient joins the set
\* of every name.  st = [map, sets].
RECURSIVE AddToAll(_, _, _)
AddToAll(names, c, st) ==
  IF names = {} THEN st
  ELSE LET name == CHOOSE n \in names : TRUE
           setId == IF MapHas(st.map, name) THEN st.map[name] ELSE NewSet(st.map)
           processClients == IF MapHas(st.map, name) THEN st.sets[setId] ELSE {}
       IN  AddToAll(names \ {name}, c,
             [map |-> MapSet(st.map, name, setId),
              sets |-> [st.sets EXCEPT ![setId] = processClients \cup {c}]])

\* GET /logs
StreamAll(c) ==
  /\ sseConn[c].kind = "closed"
  /\ outbox' = NoOutput
  /\ last' = Ran("server")
  /\ UNCHANGED <<mgrVars, srvVars, plgVars, fltVars, received>>
  /\ LET allProcesses == GetWatchedProcesses
         st == AddToAll(allProcesses, c, [map |-> sseClients, sets |-> sseSets])
     IN  /\ sseClients' = st.map
         /\ sseSets' = st.sets
         /\ sseConn' = [sseConn EXCEPT ![c] =
              [kind |-> "all", names |-> allProcesses, set |-> 0, filter |-> "all"]]
         /\ sseOut' = NoSse

\* allProcesses.forEach of the 'close' listener of GET /logs.
RECURSIVE RemoveFromAll(_, _, _)
RemoveFromAll(names, c, st) ==
  IF names = {} THEN st
  ELSE LET name == CHOOSE n \in names : TRUE
           rest == names \ {name}
       IN  IF ~MapHas(st.map, name) THEN RemoveFromAll(rest, c, st)
           ELSE LET setId == st.map[name]
                    processClients == st.sets[setId] \ {c}
                IN  RemoveFromAll(rest, c,
                      [map |-> IF processClients = {} THEN MapDelete(st.map, name)
                               ELSE st.map,
                       sets |-> [st.sets EXCEPT ![setId] = processClients]])

\* Mutant: the 'close' listener leaves the emptied set in the map.
SseCloseKeepSet(c) ==
  /\ sseConn[c].kind # "closed"
  /\ outbox' = NoOutput
  /\ last' = Ran("server")
  /\ sseOut' = NoSse
  /\ sseConn' = [sseConn EXCEPT ![c] = SseClosed(@.filter)]
  /\ UNCHANGED <<mgrVars, srvVars, plgVars, fltVars, received, sseClients>>
  /\ sseSets' = [id \in SetIds |-> sseSets[id] \ {c}]

\* req.on('close') of an SSE request
SseClose(c) ==
  /\ sseConn[c].kind # "closed"
  /\ outbox' = NoOutput
  /\ last' = Ran("server")
  /\ sseOut' = NoSse
  /\ sseConn' = [sseConn EXCEPT ![c] = SseClosed(@.filter)]
  /\ UNCHANGED <<mgrVars, srvVars, plgVars, fltVars, received>>
  /\ IF sseConn[c].kind = "process"
     THEN LET name == CHOOSE n \in sseConn[c].names : TRUE
              setId == sseConn[c].set
              processClients == sseSets[setId] \ {c}
          IN  /\ sseSets' = [sseSets EXCEPT ![setId] = processClients]
              /\ sseClients' = IF processClients = {}
                               THEN MapDelete(sseClients, name) ELSE sseClients
     ELSE LET st == RemoveFromAll(sseConn[c].names, c,
                      [map |-> sseClients, sets |-> sseSets])
          IN  /\ sseClients' = st.map
              /\ sseSets' = st.sets

\* ---------------------------------------------------------------- LogServer
DefaultOptions ==
  [filter |-> "all", clean |-> FALSE, json |-> TRUE,
   log_type |-> FALSE, timestamps |-> FALSE]

\* Mutant: the fields the message leaves out fall back to their defaults.
MergeOptionsReset(options, partial) ==
  [f \in DOMAIN options |->
     IF f \in DOMAIN partial THEN partial[f] ELSE DefaultOptions[f]]

\* { ...client.options, ...message.options }
MergeOptions(options, partial) ==
  [f \in DOMAIN options |-> IF f \in DOMAIN partial THEN partial[f] ELSE options[f]]

\* Mutant: every new connection starts authenticated.
ConnectAuthenticated(c) ==
  /\ ~MapHas(clients, c)
  /\ readyState[c] = "CLOSED"
  /\ readyState' = [readyState EXCEPT ![c] = "OPEN"]
  /\ clients' = MapSet(clients, c,
        [authenticated |-> TRUE,
         subscriptions |-> {},
         options |-> DefaultOptions])
  /\ outbox' = NoOutput
  /\ last' = Ran("server")
  /\ UNCHANGED <<mgrVars, plgVars, fltVars, received, sseVars, authToken, wildcard, cleared>>

\* wss.on('connection')
Connect(c) ==
  /\ ~MapHas(clients, c)
  /\ readyState[c] = "CLOSED"
  /\ readyState' = [readyState EXCEPT ![c] = "OPEN"]
  /\ clients' = MapSet(clients, c,
        [authenticated |-> (authToken = NoToken),
         subscriptions |-> {},
         options |-> DefaultOptions])
  /\ outbox' = NoOutput
  /\ last' = Ran("server")
  /\ UNCHANGED <<mgrVars, plgVars, fltVars, received, sseVars, authToken, wildcard, cleared>>

\* ws.on('close')
OnClose(c) ==
  /\ readyState[c] \in {"OPEN", "CLOSING"}
  /\ readyState' = [readyState EXCEPT ![c] = "CLOSED"]
  /\ clients' = MapDelete(clients, c)
  /\ wildcard' = wildcard \ {c}
  /\ cleared' = cleared \ {c}
  /\ received' = Record(received, NoOutput, Subscribed(clients'))
  /\ outbox' = NoOutput
  /\ last' = Ran("server")
  /\ UNCHANGED <<mgrVars, plgVars, fltVars, sseVars, authToken>>

\* ws.on('error'): the socket is no longer open when the listener runs; its
\* 'close' event follows.
OnError(c) ==
  /\ MapHas(clients, c)
  /\ readyState' = [readyState EXCEPT ![c] = "CLOSING"]
  /\ clients' = MapDelete(clients, c)
  /\ wildcard' = wildcard \ {c}
  /\ cleared' = cleared \ {c}
  /\ received' = Record(received, NoOutput, Subscribed(clients'))
  /\ outbox' = NoOutput
  /\ last' = Ran("server")
  /\ UNCHANGED <<mgrVars, plgVars, fltVars, sseVars, authToken>>

HandleAuth(c, token) ==
  /\ last' = Ran("server")
  /\ UNCHANGED <<mgrVars, plgVars, fltVars, received, sseVars, authToken, wildcard, cleared>>
  /\ IF authToken = NoToken
     THEN /\ outbox' = NoOutput
          /\ UNCHANGED <<clients, readyState>>
     ELSE IF token = authToken
     THEN /\ clients' = [clients EXCEPT ![c].authenticated = TRUE]
          /\ outbox' = NoOutput
          /\ UNCHANGED readyState
     ELSE /\ outbox' = NoOutput
          /\ readyState' = [readyState EXCEPT
                              ![c] = IF @ = "OPEN" THEN "CLOSING" ELSE @]
          /\ UNCHANGED clients

\* recentLogs.forEach((log) => this.sendLog(ws, client, log))
RECURSIVE SendEach(_, _, _, _, _)
SendEach(sent, c, client, logs, i) ==
  IF i > Len(logs) THEN sent
  ELSE SendEach(SendLog(sent, c, client, logs[i]), c, client, logs, i + 1)

\* targets.forEach((target) => ... getRecentLogs(target, 20) ...); the array is
\* walked in insertion order, which the model does not keep: the order across
\* targets is fixed arbitrarily, the order within one target is the buffer's.
RECURSIVE Replay(_, _, _, _)
Replay(sent, c, client, targets) ==
  IF targets = {} THEN sent
  ELSE LET target == CHOOSE t \in targets : TRUE
           recentLogs == GetRecentLogs(logBuffers, target, Some(ReplayCount))
       IN  Replay(SendEach(sent, c, client, recentLogs, 1), c, client,
                  targets \ {target})

\* Mutant: the watched set is not consulted.
SubscribeReplyAnyName(c, processName) ==
  IF ~clients[c].authenticated THEN "error"
  ELSE IF processName = Undefined THEN "error"
  ELSE "subscribed"

\* The type of the control message handleSubscribe answers with.
SubscribeReply(c, processName) ==
  IF ~clients[c].authenticated THEN "error"
  ELSE IF processName = Undefined THEN "error"
  ELSE IF processName # "*" /\ processName \notin GetWatchedProcesses THEN "error"
  ELSE "subscribed"

HandleSubscribe(c, processName) ==
  /\ last' = Ran("server")
  /\ UNCHANGED <<mgrVars, plgVars, fltVars, sseVars, authToken, readyState>>
  /\ IF SubscribeReply(c, processName) = "error"
     THEN /\ outbox' = NoOutput
          /\ UNCHANGED <<clients, wildcard, cleared>>
     ELSE LET processes == GetWatchedProcesses
              subs == IF processName = "*"
                      THEN clients[c].subscriptions \cup processes
                      ELSE clients[c].subscriptions \cup {processName}
              client == [clients[c] EXCEPT !.subscriptions = subs]
              targets == IF processName = "*" THEN processes ELSE {processName}
          IN  /\ clients' = [clients EXCEPT ![c] = client]
              /\ wildcard' = IF processName = "*" THEN wildcard \cup {c}
                             ELSE wildcard
              /\ cleared' = cleared \ {c}
              /\ outbox' = [NoOutput EXCEPT ![c] =
                   Replay(<< >>, c, client, targets)]
  /\ received' = Record(received, outbox', Subscribed(clients'))

\* Mutant: an unsubscribe without a process removes nothing.
HandleUnsubscribeNamedOnly(c, processName) ==
  /\ last' = Ran("server")
  /\ UNCHANGED <<mgrVars, plgVars, fltVars, sseVars, authToken, readyState>>
  /\ IF ~clients[c].authenticated
     THEN /\ outbox' = NoOutput
          /\ UNCHANGED <<clients, wildcard, cleared>>
     ELSE /\ clients' = [clients EXCEPT ![c].subscriptions =
                           IF processName = "*" THEN {} ELSE @ \ {processName}]
          /\ wildcard' = wildcard \ {c}
          /\ cleared' = IF processName = Undefined /\ c \in wildcard
                        THEN cleared \cup {c} ELSE cleared
          /\ outbox' = NoOutput
  /\ received' = Record(received, NoOutput, Subscribed(clients'))

HandleUnsubscribe(c, processName) ==
  /\ last' = Ran("server")
  /\ UNCHANGED <<mgrVars, plgVars, fltVars, sseVars, authToken, readyState>>
  /\ IF ~clients[c].authenticated
     THEN /\ outbox' = NoOutput
          /\ UNCHANGED <<clients, wildcard, cleared>>
     ELSE /\ clients' = [clients EXCEPT ![c].subscriptions =
                           IF processName = Undefined \/ processName = "*"
                           THEN {} ELSE @ \ {processName}]
          /\ wildcard' = wildcard \ {c}
          /\ cleared' = IF processName = Undefined /\ c \in wildcard
                        THEN cleared \cup {c} ELSE cleared
          /\ outbox' = NoOutput
  /\ received' = Record(received, NoOutput, Subscribed(clients'))

\* Mutant: the options object is shared by all connections.
HandleOptionsShared(c, options) ==
  /\ last' = Ran("server")
  /\ UNCHANGED <<mgrVars, plgVars, fltVars, received, sseVars, authToken, readyState, wildcard, cleared>>
  /\ IF ~clients[c].authenticated
     THEN /\ outbox' = NoOutput
          /\ UNCHANGED clients
     ELSE IF options # None
     THEN /\ clients' = [d \in DOMAIN clients |->
                           [clients[d] EXCEPT !.options = MergeOptions(@, options[1])]]
          /\ outbox' = NoOutput
     ELSE /\ outbox' = NoOutput
          /\ UNCHANGED clients

HandleOptions(c, options) ==
  /\ last' = Ran("server")
  /\ UNCHANGED <<mgrVars, plgVars, fltVars, received, sseVars, authToken, readyState, wildcard, cleared>>
  /\ IF ~clients[c].authenticated
     THEN /\ outbox' = NoOutput
          /\ UNCHANGED clients
     ELSE IF options # None
     THEN /\ clients' = [clients EXCEPT ![c].options = MergeOptions(@, options[1])]
          /\ outbox' = NoOutput
     ELSE /\ outbox' = NoOutput
          /\ UNCHANGED clients

\* 'ping', an unknown type, or a payload that is not JSON: a reply, no change.
HandleOther(c) ==
  /\ last' = Ran("server")
  /\ outbox' = NoOutput
  /\ UNCHANGED <<mgrVars, srvVars, plgVars, fltVars, received, sseVars>>

\* ws.on('message'): the listener stays attached until the socket is gone.
CanReceive(c) == MapHas(clients, c) /\ readyState[c] \in {"OPEN", "CLOSING"}

\* ws.on('message') -> handleMessage: one control message of connection c.
HandleMessage(c, tokens, targets, filters) ==
  /\ CanReceive(c)
  /\ \/ \E token \in tokens : HandleAuth(c, token)
     \/ \E processName \in targets : HandleSubscribe(c, processName)
     \/ \E processName \in targets : HandleUnsubscribe(c, processName)
     \/ \E options \in OptionsMessages(filters) : HandleOptions(c, options)
     \/ HandleOther(c)

\* ------------------------------------------------------------ specifications
InitRecording(tokens, rcv) ==
  /\ watchedProcesses = {}
  /\ processIdToName = EmptyMap
  /\ logBuffers = EmptyMap
  /\ authToken \in tokens
  /\ clients = EmptyMap
  /\ readyState = [c \in Conns |-> "CLOSED"]
  /\ outbox = NoOutput
  /\ created = 0
  /\ appended = [n \in Names |-> << >>]
  /\ last = Ran("constructor")
  /\ wildcard = {}
  /\ cleared = {}
  /\ timers = 0
  /\ sseClients = EmptyMap
  /\ sseSets = [id \in SetIds |-> {}]
  /\ sseConn = [c \in SseConns |-> SseClosed("all")]
  /\ sseOut = NoSse
  /\ filterOpts = [log_type |-> "all", text |-> << >>, regex |-> None]
  /\ evaluated = None
  /\ included = None
  /\ received = rcv

InitWith(tokens) == InitRecording(tokens, None)

\* --- SpecManager: the LogManager alone, driven through its public methods.
ManagerInit == InitWith({NoToken})

ManagerNext ==
  \/ \E name \in Names, pm_id \in PmIds : RegisterProcess(name, pm_id)
  \/ \E name \in Names \cup {Ghost}, pm_id \in PmIds :
        UnregisterProcess(name, Some(pm_id))
  \/ \E name \in Names \cup {Ghost} : UnregisterProcess(name, None)
  \/ \E pm_id \in PmIds, type \in LogTypes, data \in Payloads :
        HandleLog(pm_id, type, data, MaxEntries)
  \/ Cleanup

SpecManager == ManagerInit /\ [][ManagerNext]_vars

\* --- Spec: the LogManager with the WebSocket server attached and one
\* connection; the process events are those of three (name, pm_id) pairs.
Processes == {<<"app", 0>>, <<"api", 1>>, <<"app", 1>>}
LivePayloads == {<<"a">>, <<"a", NL, "b">>}

Init == InitWith({Secret})

Next ==
  \/ \E p \in Processes : RegisterProcess(p[1], p[2])
  \/ \E p \in Processes : UnregisterProcess(p[1], Some(p[2]))
  \/ \E pm_id \in PmIds, type \in LogTypes, data \in LivePayloads :
        HandleLog(pm_id, type, data, MaxLive)
  \/ Connect(1)
  \/ OnClose(1)
  \/ OnError(1)
  \/ HandleMessage(1, {Secret}, SubscribeTargets, {"all", "error"})

Spec == Init /\ [][Next]_vars

\* --- SpecFanout: two connections on one process name.
FanoutInit == InitWith({Secret})

FanoutNext ==
  \/ RegisterProcess("app", 0)
  \/ UnregisterProcess("app", Some(0))
  \/ \E type \in LogTypes, data \in LivePayloads : HandleLog(0, type, data, MaxEntries)
  \/ \E c \in Conns : Connect(c)
  \/ \E c \in Conns : OnClose(c)
  \/ \E c \in Conns : HandleMessage(c, {Secret}, {"app", "*"}, {"all", "error"})
  \/ Cleanup

SpecFanout == FanoutInit /\ [][FanoutNext]_vars

\* --- SpecOptions: one connection that sends options messages of every
\* shape while one process logs.
OptionsInit == InitWith({Secret})

OptionsNext ==
  \/ RegisterProcess("app", 0)
  \/ \E type \in LogTypes : HandleLog(0, type, <<"a">>, MaxLive)
  \/ Connect(1)
  \/ OnClose(1)
  \/ HandleMessage(1, {Secret}, {"app"}, {"all"})
  \/ \E partial \in PartialOptions : CanReceive(1) /\ HandleOptions(1, Some(partial))

SpecOptions == OptionsInit /\ [][OptionsNext]_vars

\* --- SpecPlugin: the plugin on the PM2 bus (lifecycle events, refresh
\* timers, log packets) with one connection; the plugin has started while
\* PM2 managed no other process.
PluginInit == InitWith({NoToken})

PluginNext ==
  \/ \E event \in Events, p \in EventProcs : ProcessEvent(event, p[1], p[2])
  \/ \E processes \in PmLists : RefreshProcesses(processes)
  \/ \E p \in EventProcs, type \in LogTypes :
        BusLog(p[1], p[2], type, <<"a">>, MaxLive)
  \/ Connect(1)
  \/ HandleMessage(1, {Secret}, {"app", "*"}, {"all"})

SpecPlugin == PluginInit /\ [][PluginNext]_vars

\* --- SpecLines: one process that logs payloads of every line structure.
LinesInit == InitWith({NoToken})

LinesNext ==
  \/ RegisterProcess("app", 0)
  \/ UnregisterProcess("app", None)
  \/ \E type \in LogTypes, data \in LinePayloads : HandleLog(0, type, data, MaxEntries)
  \/ Cleanup

SpecLines == LinesInit /\ [][LinesNext]_vars

\* --- SpecSSE: the SSE server with two requests and the WebSocket server
\* with one connection, over two processes.
SseInit == InitWith({NoToken})

SseNext ==
  \/ RegisterProcess("app", 0)
  \/ RegisterProcess("api", 1)
  \/ UnregisterProcess("app", Some(0))
  \/ \E pm_id \in PmIds, type \in LogTypes :
        HandleLog(pm_id, type, <<"a">>, MaxStreamed)
  \/ \E c \in SseConns, name \in Names, rawFilter \in {Undefined, "error"} :
        HandleSSE(c, name, rawFilter)
  \/ \E c \in SseConns : StreamAll(c)
  \/ \E c \in SseConns : SseClose(c)
  \/ Connect(1)
  \/ OnClose(1)
  \/ OnError(1)
  \/ \E name \in Names : CanReceive(1) /\ HandleSubscribe(1, name)

SpecSSE == SseInit /\ [][SseNext]_vars

\* --- SpecAuth: one connection that sends right and wrong tokens, with and
\* without a configured token.
AuthInit == InitWith({NoToken, Secret})

AuthNext ==
  \/ RegisterProcess("app", 0)
  \/ \E type \in LogTypes : HandleLog(0, type, <<"a">>, MaxLive)
  \/ Connect(1)
  \/ OnClose(1)
  \/ HandleMessage(1, Tokens, {"app", "*", Undefined}, {"all", "error"})

SpecAuth == AuthInit /\ [][AuthNext]_vars

\* A client's filter is set: the regex string goes through parseRegexString.
SetFilter(log_type, text, regexStr) ==
  /\ filterOpts' = [log_type |-> log_type, text |-> text,
                    regex |-> ParseRegexString(regexStr)]
  /\ evaluated' = None
  /\ included' = None
  /\ outbox' = NoOutput
  /\ last' = Ran("server")
  /\ UNCHANGED <<mgrVars, srvVars, plgVars, sseVars, received>>

\* One call of shouldIncludeLog with the client's filter object.
CallShouldIncludeLog(entry) ==
  /\ LET call == ShouldIncludeLogFiltered(entry, filterOpts)
     IN  /\ included' = Some(call.result)
         /\ filterOpts' = call.filter
  /\ evaluated' = Some(entry)
  /\ outbox' = NoOutput
  /\ last' = Ran("server")
  /\ UNCHANGED <<mgrVars, srvVars, plgVars, sseVars, received>>

\* --- SpecReplay: one connection that subscribes and unsubscribes, again
\* and again, while one process logs; what the connection is sent is
\* recorded.
ReplayInit == InitRecording({Secret}, [c \in Conns |-> {}])

ReplayNext ==
  \/ RegisterProcess("app", 0)
  \/ \E type \in LogTypes, data \in LivePayloads : HandleLog(0, type, data, MaxEntries)
  \/ Connect(1)
  \/ OnClose(1)
  \/ OnError(1)
  \/ HandleMessage(1, {Secret}, {"app", "*"}, {"all", "error"})

SpecReplay == ReplayInit /\ [][ReplayNext]_vars

\* --- SpecFilter: one filter object, set from the strings a client sends,
\* applied to one entry after another.
FilterInit == InitWith({NoToken})

FilterNext ==
  \/ \E log_type \in Filters, text \in TextFilters, regexStr \in RegexStrings :
        SetFilter(log_type, text, regexStr)
  \/ \E type \in LogTypes, message \in Messages :
        CallShouldIncludeLog(NewEntry(0, type, message, "app"))

SpecFilter == FilterInit /\ [][FilterNext]_vars

\* ------------------------------------------------------------------ claims

\* C1: in every reachable state every log buffer holds at most bufferSize
\* entries, whatever registerProcess, unregisterProcess, handleLog (one or
\* several lines) and cleanup calls came before.
C1_BufferWithinCapacity ==
  \A name \in DOMAIN logBuffers : Len(logBuffers[name]) <= BufferSize

\* A buffer that is full after more than bufferSize entries were pushed to it.
C1_Witness ==
  \E name \in DOMAIN logBuffers :
    /\ Len(logBuffers[name]) = BufferSize
    /\ Len(appended[name]) > BufferSize

\* C2: for a watched process to whose buffer handleLog has appended n
\* entries (since the buffers were created), getRecentLogs(name) without a
\* count is the last min(n, bufferSize) of them, oldest first.
C2_RecentIsTail ==
  \A name \in watchedProcesses :
    LET n == Len(appended[name])
        k == Min(n, BufferSize)
    IN  GetRecentLogs(logBuffers, name, None) =
          [i \in 1..k |-> appended[name][n - k + i]]

\* bufferSize + 1 entries were appended: the oldest one is gone.
C2_Witness ==
  \E name \in watchedProcesses :
    /\ Len(appended[name]) = BufferSize + 1
    /\ GetRecentLogs(logBuffers, name, None) = Tail(appended[name])

\* Position of entry e in the sequence s (entries are distinct objects).
PositionIn(s, e) == CHOOSE k \in 1..Len(s) : s[k] = e

\* Whether an entry of this type passes a connection's filter option.
Passes(filter, type) == filter = "all" \/ filter = type

\* The entries the handleLog call that ran last pushed to its buffer.
LastEmitted == LastN(appended[last.name], last.emitted)

Receiving(c, name) ==
  /\ MapHas(clients, c)
  /\ readyState[c] = "OPEN"
  /\ clients[c].authenticated
  /\ name \in clients[c].subscriptions

\* C3: what one handleLog call sends to a connection are entries that this
\* call appended to the process's buffer, in the order it appended them, each
\* at most once.
C3_LiveOrder ==
  [][created' > created =>
       LET name == CHOOSE n \in Names : appended'[n] # appended[n]
           hist == appended'[name]
       IN  \A c \in Conns :
             LET sent == outbox'[c] IN
             /\ \A i \in 1..Len(sent) :
                  \E k \in (Len(appended[name]) + 1)..Len(hist) : hist[k] = sent[i]
             /\ \A i, j \in 1..Len(sent) :
                  i < j => PositionIn(hist, sent[i]) < PositionIn(hist, sent[j])
    ]_vars

\* A two-line payload both lines of which went to a connection.
C3_Witness ==
  /\ last.op = "handleLog"
  /\ last.emitted = 2
  /\ \E c \in Conns : Len(outbox[c]) = 2

\* C4: a connection that subscribed to "*" (and has not unsubscribed since)
\* is sent the entries of every watched process, also of one registered after
\* the subscribe.
C4_WildcardCoversLaterProcesses ==
  (last.op = "handleLog" /\ last.emitted > 0) =>
    \A c \in wildcard :
      (/\ MapHas(clients, c)
       /\ readyState[c] = "OPEN"
       /\ clients[c].authenticated
       /\ clients[c].options.filter = "all") => outbox[c] = LastEmitted

\* C5: whatever a handler sends to a connection is an entry of a process in
\* the connection's subscription set that passes the connection's filter.
C5_OnlyIntendedRecipients ==
  \A c \in Conns :
    \A i \in 1..Len(outbox[c]) :
      /\ MapHas(clients, c)
      /\ outbox[c][i].process \in clients[c].subscriptions
      /\ Passes(clients[c].options.filter, outbox[c][i].type)

\* Both processes are watched and log; a connection subscribed to one of
\* them with filter 'error' has just been sent an entry.
C5_Witness ==
  /\ last.op = "handleLog"
  /\ watchedProcesses = Names
  /\ \A n \in Names : appended[n] # << >>
  /\ \E c \in DOMAIN clients :
       /\ Cardinality(clients[c].subscriptions) = 1
       /\ clients[c].options.filter = "error"
       /\ outbox[c] # << >>

\* C6: every entry a handleLog call creates is sent exactly once, in order,
\* to every open authenticated connection that is subscribed to the process
\* and whose filter the entry passes.
C6_CompleteFanout ==
  (last.op = "handleLog" /\ last.emitted > 0) =>
    \A c \in Conns :
      Receiving(c, last.name) =>
        outbox[c] = SelectSeq(LastEmitted,
                      LAMBDA e : Passes(clients[c].options.filter, e.type))

\* One 'out' line, then one 'error' line: the connection with filter 'error'
\* is sent the second entry alone, the other connection is sent it too.
C6_Witness ==
  /\ last.op = "handleLog"
  /\ last.emitted = 1
  /\ Len(appended["app"]) = 2
  /\ appended["app"][1].type = "out"
  /\ appended["app"][2].type = "error"
  /\ \E c, d \in Conns :
       /\ c # d
       /\ Receiving(c, "app") /\ Receiving(d, "app")
       /\ clients[c].options.filter = "error"
       /\ clients[d].options.filter = "all"
       /\ outbox[c] = <<appended["app"][2]>>
       /\ outbox[d] = <<appended["app"][2]>>

\* C7: a handleLog call whose pm_id resolves to no name, or to a name that
\* is not watched, changes no LogManager state, emits no 'log' event and
\* sends nothing to any connection.
C7_UntrackedLogDropped ==
  [][\A pm_id \in PmIds :
       (/\ last'.op = "handleLog"
        /\ last'.pm_id = Some(pm_id)
        /\ \/ MapGet(processIdToName, pm_id) = Undefined
           \/ MapGet(processIdToName, pm_id) \notin watchedProcesses)
       => /\ UNCHANGED <<watchedProcesses, processIdToName, logBuffers,
                         appended, created>>
          /\ last'.emitted = 0
          /\ outbox' = NoOutput
    ]_vars

\* A log payload arrived under a pm_id that still resolves to a name which
\* is no longer watched, while an open connection is subscribed to that name.
C7_Witness ==
  /\ last.op = "handleLog"
  /\ last.emitted = 0
  /\ last.name # Undefined
  /\ last.name \notin watchedProcesses
  /\ \E c \in Conns : Receiving(c, last.name)

\* C8: at most one process id maps to any name.
C8_OneIdPerName ==
  \A name \in Names :
    Cardinality({id \in PmIds : GetProcessByPmId(id) = name}) <= 1

\* C9: an unregisterProcess(name, oldId) that follows registerProcess(name,
\* newId), where oldId # newId is an earlier binding of name, removes the
\* oldId binding only: name stays watched and newId still resolves to name.
C9_StaleUnregisterHarmless ==
  [][\A name \in Names, oldId \in PmIds :
       (/\ last.op = "registerProcess"
        /\ last.name = name
        /\ last.pm_id # Some(oldId)
        /\ GetProcessByPmId(oldId) = name
        /\ UnregisterProcess(name, Some(oldId)))
       => /\ name \in watchedProcesses'
          /\ MapGet(processIdToName', last.pm_id[1]) = name
          /\ ~MapHas(processIdToName', oldId)
    ]_vars

\* C10: once a name has been registered again under a new process id, a
\* handleLog call carrying the old process id appends nothing to the name's
\* buffer and sends nothing.
C10_OldIdAppendsNothing ==
  [][\A oldId \in PmIds :
       (/\ last.op = "registerProcess"
        /\ last.pm_id # Some(oldId)
        /\ GetProcessByPmId(oldId) = last.name
        /\ last'.op = "handleLog"
        /\ last'.pm_id = Some(oldId))
       => /\ logBuffers'[last.name] = logBuffers[last.name]
          /\ outbox' = NoOutput
    ]_vars

\* C11: registerProcess and unregisterProcess leave what getRecentLogs
\* returns unchanged for every name, and so does every other step except
\* cleanup for a name that is not watched: between the unregister of a name
\* and its next register, and across that register, the buffer keeps its
\* entries in their order.
C11_BufferSurvivesRestart ==
  [][\A name \in Names :
       (/\ last'.op # "cleanup"
        /\ \/ last'.op \in {"registerProcess", "unregisterProcess"}
           \/ name \notin watchedProcesses)
       => GetRecentLogs(logBuffers', name, None) =
            GetRecentLogs(logBuffers, name, None)
    ]_vars

\* An unregisterProcess call has just run and a name that is not watched
\* still has the entries that were pushed to its buffer.
C11_Witness ==
  /\ last.op = "unregisterProcess"
  /\ \E name \in Names \ watchedProcesses :
       /\ Len(appended[name]) > 0
       /\ GetRecentLogs(logBuffers, name, None) = LastN(appended[name], BufferSize)

\* C12: for every count >= 0, getRecentLogs(name, count) is the last
\* min(count, len) entries of the name's buffer, oldest first; for count = 0
\* that is no entry at all.
C12_RecentCount ==
  \A name \in Names, count \in 0..MaxCount :
    LET buffer == IF MapHas(logBuffers, name) THEN logBuffers[name] ELSE << >>
        k == Min(count, Len(buffer))
    IN  GetRecentLogs(logBuffers, name, Some(count)) =
          [i \in 1..k |-> buffer[Len(buffer) - k + i]]

\* C13: for a name that was never registered, getRecentLogs (with or without
\* a count) returns the empty sequence and getWatchedProcesses does not
\* contain the name, in every reachable state.
C13_NeverRegistered ==
  /\ Ghost \notin GetWatchedProcesses
  /\ GetRecentLogs(logBuffers, Ghost, None) = << >>
  /\ \A count \in 0..MaxCount :
       GetRecentLogs(logBuffers, Ghost, Some(count)) = << >>

\* Every registered name is watched and has entries in its buffer; the
\* never-registered name has none.
C13_Witness ==
  /\ GetWatchedProcesses = Names
  /\ \A name \in Names : GetRecentLogs(logBuffers, name, None) # << >>
  /\ GetRecentLogs(logBuffers, Ghost, None) = << >>

\* C14: a subscribe message of an authenticated connection that names a
\* process which is not watched is answered with an error, leaves the
\* connection's subscription set as it was and sends no log entry; one that
\* names "*" is answered with 'subscribed', whatever the watched set is.
C14_SubscribeUnknownRejected ==
  [][\A c \in Conns, processName \in Names \cup {"*"} :
       (/\ CanReceive(c)
        /\ clients[c].authenticated
        /\ HandleSubscribe(c, processName))
       => IF processName = "*"
          THEN /\ SubscribeReply(c, processName) = "subscribed"
               /\ clients'[c].subscriptions =
                    clients[c].subscriptions \cup watchedProcesses
          ELSE processName \notin watchedProcesses =>
                 /\ SubscribeReply(c, processName) = "error"
                 /\ clients'[c].subscriptions = clients[c].subscriptions
                 /\ outbox' = NoOutput
    ]_vars

\* A connection whose "*" subscribe was accepted although no process has
\* ever been registered.
C14_Witness ==
  /\ last.op = "server"
  /\ watchedProcesses = {}
  /\ logBuffers = EmptyMap
  /\ \E c \in wildcard : clients[c].authenticated /\ clients[c].subscriptions = {}

\* C15: a connection that subscribed to "*" and then sent an unsubscribe
\* without a process has an empty subscription set and is sent no entry of
\* any process, whenever that process was registered, for as long as no
\* further subscribe of the connection is accepted.
C15_UnsubscribeAllClears ==
  \A c \in cleared :
    /\ MapHas(clients, c)
    /\ clients[c].subscriptions = {}
    /\ outbox[c] = << >>

\* Such a connection is open and authenticated while handleLog creates an
\* entry for a watched process.
C15_Witness ==
  /\ last.op = "handleLog"
  /\ last.emitted > 0
  /\ \E c \in cleared :
       /\ readyState[c] = "OPEN"
       /\ clients[c].authenticated
       /\ outbox[c] = << >>

\* C16: an options message of an authenticated connection gives every
\* option field it carries the value it carries and leaves every other
\* option field, the subscription set and the authenticated flag as they were.
C16_OptionsMerge ==
  [][\A c \in Conns, partial \in PartialOptions :
       (/\ CanReceive(c)
        /\ clients[c].authenticated
        /\ HandleOptions(c, Some(partial)))
       => /\ \A f \in DOMAIN clients[c].options :
               clients'[c].options[f] =
                 IF f \in DOMAIN partial THEN partial[f] ELSE clients[c].options[f]
          /\ DOMAIN clients'[c].options = DOMAIN clients[c].options
          /\ clients'[c].subscriptions = clients[c].subscriptions
          /\ clients'[c].authenticated = clients[c].authenticated
    ]_vars

\* Three options differ from their defaults, each set by a message of its
\* own, on a connection that holds a subscription.
C16_Witness ==
  \E c \in DOMAIN clients :
    /\ clients[c].options.filter = "error"
    /\ clients[c].options.clean = TRUE
    /\ clients[c].options.json = FALSE
    /\ clients[c].subscriptions # {}

\* C17: the handler of a lifecycle event of another process appends and
\* sends no log entry; for stop, delete, exit and kill the process is
\* unregistered when the handler returns; any event outside the two groups
\* changes nothing; and after start, restart, online or exception the name is
\* watched and the process id resolves to it by the time the next log or
\* lifecycle packet is handled.
C17_LifecycleRegisters ==
  [][/\ \A event \in Events, p \in EventProcs :
          (p[1] # PluginName /\ ProcessEvent(event, p[1], p[2]))
          => /\ UNCHANGED <<logBuffers, appended, created>>
             /\ outbox' = NoOutput
             /\ event \in StopEvents =>
                  /\ p[1] \notin watchedProcesses'
                  /\ MapGet(processIdToName', p[2]) = Undefined
             /\ event \notin StartEvents \cup StopEvents =>
                  UNCHANGED <<watchedProcesses, processIdToName>>
     /\ (/\ last.op = "process:event"
         /\ last.event \in StartEvents
         /\ last.name # PluginName
         /\ last'.op \in {"handleLog", "process:event", "unregisterProcess"})
        => /\ last.name \in watchedProcesses
           /\ GetProcessByPmId(last.pm_id[1]) = last.name
    ]_vars

\* The maximal newline-free stretches <<first, last>> of a payload that hold
\* a character which is not whitespace.
NonBlankStretches(data) ==
  {s \in (1..Len(data)) \X (1..Len(data)) :
     /\ s[1] <= s[2]
     /\ s[1] = 1 \/ data[s[1] - 1] = NL
     /\ s[2] = Len(data) \/ data[s[2] + 1] = NL
     /\ \A k \in s[1]..s[2] : data[k] # NL
     /\ \E k \in s[1]..s[2] : data[k] \notin {SP, "\t"}}

\* C18: a handleLog call for a watched process creates one entry for every
\* line of the payload that is not empty or whitespace-only, in the order of
\* the lines; each entry's message is its line, without a newline character,
\* and each entry carries the call's type and the name the pm_id resolves to.
C18_OneEntryPerLine ==
  [][\A pm_id \in PmIds, type \in LogTypes, data \in LinePayloads :
       (/\ MapGet(processIdToName, pm_id) \in watchedProcesses
        /\ HandleLog(pm_id, type, data, MaxEntries))
       => LET name == MapGet(processIdToName, pm_id)
              new == SubSeq(appended'[name], Len(appended[name]) + 1,
                            Len(appended'[name]))
              stretches == NonBlankStretches(data)
          IN  /\ Len(new) = Cardinality(stretches)
              /\ created' = created + Len(new)
              /\ \A i \in 1..Len(new) :
                   /\ \E s \in stretches :
                        /\ Cardinality({t \in stretches : t[1] < s[1]}) = i - 1
                        /\ new[i].message = SubSeq(data, s[1], s[2])
                   /\ \A k \in 1..Len(new[i].message) : new[i].message[k] # NL
                   /\ new[i].type = type
                   /\ new[i].process = name
    ]_vars

\* The payload " a \n\t" gave one entry, the padded first line; its
\* whitespace-only second line gave none.
C18_Witness ==
  /\ last.op = "handleLog"
  /\ last.emitted = 1
  /\ LastEmitted[1].message = <<SP, "a", SP>>
  /\ LastEmitted[1].process = last.name

\* The LogManager as cleanup() leaves it.
Cleared ==
  /\ GetWatchedProcesses = {}
  /\ \A pm_id \in PmIds : GetProcessByPmId(pm_id) = Undefined
  /\ \A name \in Names \cup {Ghost} :
       /\ GetRecentLogs(logBuffers, name, None) = << >>
       /\ \A count \in 0..MaxCount :
            GetRecentLogs(logBuffers, name, Some(count)) = << >>

\* C19: cleanup() leaves the watched set empty, every process id unresolved
\* and every getRecentLogs result empty, and the LogManager stays so, every
\* handleLog call creating and sending nothing, until registerProcess runs.
C19_CleanupClearsAll ==
  [][/\ last'.op = "cleanup" => Cleared'
     /\ (Cleared /\ last'.op # "registerProcess")
        => /\ Cleared'
           /\ created' = created
           /\ outbox' = NoOutput
    ]_vars

\* A log packet arrives after cleanup() threw away the entries created
\* before it, while an open connection is still subscribed to the process.
C19_Witness ==
  /\ last.op = "handleLog"
  /\ created > 0
  /\ Cleared
  /\ \E c \in Conns : Receiving(c, "app")

\* C20: a closed connection is written no log entry and no subscription
\* index refers to it: a WebSocket that is not open is not in the clients
\* map, a closed SSE request is in no client set of the SSE map, and no
\* client set in the SSE map is empty.
C20_ClosedConnectionReleased ==
  /\ \A c \in Conns :
       readyState[c] # "OPEN" => ~MapHas(clients, c) /\ outbox[c] = << >>
  /\ \A c \in SseConns :
       sseConn[c].kind = "closed" =>
         /\ sseOut[c] = << >>
         /\ \A name \in DOMAIN sseClients : c \notin sseSets[sseClients[name]]
  /\ \A name \in DOMAIN sseClients : sseSets[sseClients[name]] # {}

\* A handleLog call created an entry that went to an open SSE request after
\* another SSE request, opened with filter 'error', was closed and the
\* WebSocket connection had an error.
C20_Witness ==
  /\ last.op = "handleLog"
  /\ last.emitted > 0
  /\ readyState[1] = "CLOSING"
  /\ \E c, d \in SseConns :
       /\ sseConn[c].kind = "closed"
       /\ sseConn[c].filter = "error"
       /\ sseConn[d].kind # "closed"
       /\ sseOut[d] # << >>
       /\ sseOut[c] = << >>

\* C21: a control message of connection A, a handleLog call and a process
\* register, unregister or cleanup leave the subscription set, the options
\* and the authenticated flag of every other connection B as they were.
C21_OwnMessagesOnly ==
  [][\A A \in Conns, B \in Conns :
       (/\ A # B
        /\ MapHas(clients, B)
        /\ \/ HandleMessage(A, Tokens, SubscribeTargets, Filters)
           \/ last'.op \in {"handleLog", "registerProcess",
                             "unregisterProcess", "cleanup"})
       => /\ MapHas(clients', B)
          /\ clients'[B] = clients[B]
    ]_vars

\* Two authenticated connections of which one has subscribed and changed
\* its filter while the other still has no subscription and the default
\* options.
C21_Witness ==
  /\ last.op = "server"
  /\ \E A \in DOMAIN clients, B \in DOMAIN clients :
       /\ clients[A].authenticated /\ clients[B].authenticated
       /\ clients[A].subscriptions # {}
       /\ clients[A].options.filter = "error"
       /\ clients[B].subscriptions = {}
       /\ clients[B].options = DefaultOptions

\* C22: a new connection is authenticated exactly when no token is
\* configured; a connection becomes authenticated only through an auth
\* message carrying the configured token; an auth message with another
\* token closes the socket; a subscribe, unsubscribe or options message of an
\* unauthenticated connection changes nothing and sends no entry; and an
\* unauthenticated connection has no subscription and is sent no entry.
C22_AuthenticationGate ==
  [][\A c \in Conns :
       /\ Connect(c) =>
            /\ clients'[c].authenticated = (authToken = NoToken)
            /\ clients'[c].subscriptions = {}
       /\ (/\ MapHas(clients, c) /\ ~clients[c].authenticated
           /\ MapHas(clients', c) /\ clients'[c].authenticated)
          => authToken # NoToken /\ HandleAuth(c, authToken)
       /\ \A token \in Tokens :
            (/\ CanReceive(c)
             /\ authToken # NoToken
             /\ token # authToken
             /\ HandleAuth(c, token))
            => readyState'[c] # "OPEN" /\ clients' = clients
       /\ (/\ CanReceive(c)
           /\ ~clients[c].authenticated
           /\ \/ \E processName \in SubscribeTargets :
                   \/ HandleSubscribe(c, processName)
                   \/ HandleUnsubscribe(c, processName)
              \/ \E options \in OptionsMessages(Filters) : HandleOptions(c, options))
          => clients' = clients /\ outbox' = NoOutput
       /\ (MapHas(clients', c) /\ ~clients'[c].authenticated)
          => clients'[c].subscriptions = {} /\ outbox'[c] = << >>
    ]_vars

\* A token is configured and handleLog creates an entry for a watched
\* process while an open connection has not authenticated.
C22_Witness ==
  /\ authToken = Secret
  /\ last.op = "handleLog"
  /\ last.emitted > 0
  /\ \E c \in DOMAIN clients :
       /\ readyState[c] = "OPEN"
       /\ ~clients[c].authenticated
       /\ outbox[c] = << >>

\* Whether a regex, taken by itself, matches a string: somewhere, or at the
\* start of the string when it has the y flag.
RegexMatches(regex, str) ==
  \E p \in 0..Len(str) :
    /\ "y" \in regex.flags => p = 0
    /\ LET n == Len(regex.source)
           piece == SubSeq(str, p + 1, p + n)
       IN  /\ p + n <= Len(str)
           /\ \/ piece = regex.source
              \/ /\ "i" \in regex.flags
                 /\ \A k \in 1..n : LowerChar(piece[k]) = LowerChar(regex.source[k])

\* C23: what shouldIncludeLog returns is true exactly when the entry's type
\* passes log_type, the message contains the text filter (if one is set),
\* whatever the case of the letters, and the regex (if one is set) matches
\* the message.
C23_FilterConjunction ==
  included # None =>
    LET entry == evaluated[1] IN
    included[1] =
      (/\ filterOpts.log_type = "all" \/ filterOpts.log_type = entry.type
       /\ \/ filterOpts.text = << >>
          \/ \E p \in 0..Len(entry.message) :
               /\ p + Len(filterOpts.text) <= Len(entry.message)
               /\ \A k \in 1..Len(filterOpts.text) :
                    LowerChar(entry.message[p + k]) = LowerChar(filterOpts.text[k])
       /\ \/ filterOpts.regex = None
          \/ RegexMatches(filterOpts.regex[1], entry.message))

\* C24: calling shouldIncludeLog again with the entry it was last called
\* with and the same filter options returns what it returned before and
\* leaves the filter options as they were.
C24_FilterStateless ==
  [][\A type \in LogTypes, message \in Messages :
       LET entry == NewEntry(0, type, message, "app") IN
       (/\ evaluated = Some(entry)
        /\ CallShouldIncludeLog(entry))
       => /\ included' = included
          /\ filterOpts' = filterOpts
    ]_vars

\* C25: when handleLog hands an entry to a connection, the buffer of the
\* entry's process is not empty, its newest element is that entry, and it
\* holds none of the entries made from the later lines of the payload.
C25_AppendBeforeDeliver ==
  last.op = "handleLog" =>
    \A c \in Conns : \A i \in 1..Len(outbox[c]) :
      \E k \in 1..Len(last.snaps) :
        LET snap == last.snaps[k] IN
        /\ snap.entry = outbox[c][i]
        /\ snap.buffer # << >>
        /\ snap.buffer[Len(snap.buffer)] = snap.entry
        /\ \A j \in (k + 1)..Len(last.snaps), b \in 1..Len(snap.buffer) :
             snap.buffer[b] # last.snaps[j].entry

\* A payload of two lines has been delivered to a connection, entry by
\* entry, and the second entry has pushed the oldest one out of the buffer.
C25_Witness ==
  /\ last.op = "handleLog"
  /\ last.emitted = 2
  /\ \E c \in Conns : Len(outbox[c]) = 2
  /\ Len(last.snaps[1].buffer) = BufferSize
  /\ last.snaps[2].buffer[1] # last.snaps[1].buffer[1]

\* C26: no handler sends a connection an entry that the connection has
\* already been sent since it subscribed to the entry's process, and no
\* handler sends a connection the same entry twice.
C26_AtMostOnce ==
  [][\A c \in Conns :
       /\ \A i \in 1..Len(outbox'[c]) : outbox'[c][i] \notin received[c]
       /\ \A i, j \in 1..Len(outbox'[c]) : outbox'[c][i] = outbox'[c][j] => i = j
    ]_vars

\* The entries of one process in what a handler sent, in the order sent.
SentOf(sent, name) == SelectSeq(sent, LAMBDA e : e.process = name)

\* An open, authenticated connection with filter 'all'.
ListensToAll(cl, rs, c) ==
  /\ MapHas(cl, c)
  /\ cl[c].authenticated
  /\ cl[c].options.filter = "all"
  /\ rs[c] = "OPEN"

\* C27: for an open connection with filter 'all', the step that first puts a
\* process into its subscription set sends it the last min(20, len) entries
\* of the process's buffer in buffer order, and every later step, as long as
\* the process stays in the set, sends it exactly the entries the step has
\* appended for the process, in order: what it has received for the process
\* stays a contiguous run of the append sequence that ends at the newest.
C27_ReplayGapFree ==
  [][\A c \in Conns, name \in Names :
       (/\ ListensToAll(clients, readyState, c)
        /\ ListensToAll(clients', readyState', c)
        /\ name \in clients'[c].subscriptions)
       => IF name \notin clients[c].subscriptions
          THEN /\ name \in watchedProcesses
               /\ SentOf(outbox'[c], name)
                    = LastN(logBuffers[name], Min(ReplayCount, Len(logBuffers[name])))
          ELSE SentOf(outbox'[c], name)
                 = SubSeq(appended'[name], Len(appended[name]) + 1,
                          Len(appended'[name]))
    ]_vars

\* C28: an unregisterProcess(A, id) made while id resolves to another
\* watched name B leaves B watched and id resolving to B, so that a
\* handleLog call with id is not dropped afterwards.
C28_UnregisterAffectsOnlyOwnName ==
  [][\A A \in Names \cup {Ghost}, B \in Names, id \in PmIds :
       (/\ A # B
        /\ GetProcessByPmId(id) = B
        /\ B \in watchedProcesses
        /\ UnregisterProcess(A, Some(id)))
       => /\ B \in watchedProcesses'
          /\ MapGet(processIdToName', id) = B
          /\ MapHas(logBuffers', B)
    ]_vars

\* C29: after every step the set of streaming clients registered for a
\* process has at most maxClients members, and a GET /logs/:name request
\* that finds the set full registers nothing.
C29_MaxClientsPerProcess ==
  [][/\ \A name \in DOMAIN sseClients' :
          Cardinality(sseSets'[sseClients'[name]]) <= MaxClients
     /\ \A c \in SseConns, name \in Names, rawFilter \in {Undefined, "error"} :
          (/\ HandleSSE(c, name, rawFilter)
           /\ name \in GetWatchedProcesses
           /\ MapHas(sseClients, name)
           /\ Cardinality(sseSets[sseClients[name]]) >= MaxClients)
          => UNCHANGED <<sseClients, sseSets, sseConn>>
    ]_vars

====
